---- MODULE Spec2Model ----
(***************************************************************************)
(* Model of the Indian address parser (src/parser.py, src/utils.py,        *)
(* src/models.py).  Text is a sequence of one-character strings; Python's  *)
(* None is the model value None.  Regular expressions are data (sequences  *)
(* of nodes) run by a backtracking matcher with the semantics of Python's  *)
(* re module for the constructs the patterns of src/parser.py use.         *)
(***************************************************************************)
EXTENDS Integers, Sequences, FiniteSets, TLC

\* Python None: a value no text equals (no character is "None")
None == <<"None">>

\* float('nan'), what pandas.read_csv gives for an empty cell: truthy, not text
NaN == <<"NaN">>

\* ------------------------------------------------------------------------
\* Characters and character classes
\* ------------------------------------------------------------------------
LowerSeq == <<"a","b","c","d","e","f","g","h","i","j","k","l","m",
              "n","o","p","q","r","s","t","u","v","w","x","y","z">>
UpperSeq == <<"A","B","C","D","E","F","G","H","I","J","K","L","M",
              "N","O","P","Q","R","S","T","U","V","W","X","Y","Z">>
Lower == {LowerSeq[i] : i \in 1..26}
Upper == {UpperSeq[i] : i \in 1..26}
\* ASCII digits, and a decimal digit outside ASCII (DEVANAGARI DIGIT ONE)
AsciiDigit == {"0","1","2","3","4","5","6","7","8","9"}
UnicodeDigit == {"U+0967"}
\* \d, \w and \s of a Python 3 str pattern
ReDigit == AsciiDigit \cup UnicodeDigit
ReWord == Lower \cup Upper \cup ReDigit \cup {"_"}
ReSpace == {" ", "\t", "\n"}
\* [a-z] and [a-z0-9] under re.IGNORECASE
AZ == Lower \cup Upper
AZ09 == AZ \cup AsciiDigit

\* ------------------------------------------------------------------------
\* Python str methods used by the source
\* ------------------------------------------------------------------------
\* the characters of a string literal
Str(w) == [i \in 1..Len(w) |-> SubSeq(w, i, i)]

RECURSIVE Concat(_)
Concat(ss) == IF ss = <<>> THEN <<>> ELSE Head(ss) \o Concat(Tail(ss))

\* sep.join(parts)
RECURSIVE join(_, _)
join(sep, parts) ==
    IF parts = <<>> THEN <<>>
    ELSE IF Len(parts) = 1 THEN parts[1]
    ELSE parts[1] \o sep \o join(sep, Tail(parts))

lower_char(c) == IF c \in Upper
                 THEN LowerSeq[CHOOSE i \in 1..26 : UpperSeq[i] = c]
                 ELSE c
upper_char(c) == IF c \in Lower
                 THEN UpperSeq[CHOOSE i \in 1..26 : LowerSeq[i] = c]
                 ELSE c

\* str.lower()
lower(s) == [i \in 1..Len(s) |-> lower_char(s[i])]

\* str.title(): a cased letter is upper-cased when the previous character is
\* not a cased letter, lower-cased otherwise
title(s) == [i \in 1..Len(s) |->
               IF i > 1 /\ s[i-1] \in AZ THEN lower_char(s[i])
               ELSE upper_char(s[i])]

\* str.strip()
RECURSIVE lstrip(_)
lstrip(s) == IF s # <<>> /\ Head(s) \in ReSpace THEN lstrip(Tail(s)) ELSE s
RECURSIVE rstrip(_)
rstrip(s) == IF s # <<>> /\ s[Len(s)] \in ReSpace
             THEN rstrip(SubSeq(s, 1, Len(s) - 1)) ELSE s
strip(s) == rstrip(lstrip(s))

\* str.isdigit()
isdigit(s) == s # <<>> /\ \A i \in 1..Len(s) : s[i] \in ReDigit

\* re.split(r'[<seps>]+', s): the pieces between maximal runs of separator
\* characters, empty pieces at the two ends included
RECURSIVE re_split_from(_, _, _, _)
re_split_from(seps, s, i, cur) ==
    IF i > Len(s) THEN <<cur>>
    ELSE IF s[i] \in seps
         THEN IF i > 1 /\ s[i-1] \in seps
              THEN re_split_from(seps, s, i + 1, cur)
              ELSE <<cur>> \o re_split_from(seps, s, i + 1, <<>>)
         ELSE re_split_from(seps, s, i + 1, Append(cur, s[i]))
re_split(seps, s) == re_split_from(seps, s, 1, <<>>)

\* str.split(): split on runs of whitespace, no empty pieces
split(s) == SelectSeq(re_split(ReSpace, s), LAMBDA w : w # <<>>)

\* s.startswith(old, i)
StartsAt(s, old, i) ==
    /\ i + Len(old) - 1 <= Len(s)
    /\ \A k \in 1..Len(old) : s[i + k - 1] = old[k]

\* str.replace(old, ''), old non-empty
RECURSIVE remove_from(_, _, _)
remove_from(s, old, i) ==
    IF i > Len(s) THEN <<>>
    ELSE IF StartsAt(s, old, i) THEN remove_from(s, old, i + Len(old))
    ELSE <<s[i]>> \o remove_from(s, old, i + 1)
remove_all(s, old) == remove_from(s, old, 1)

\* ------------------------------------------------------------------------
\* Regular expressions: nodes and the backtracking matcher
\* ------------------------------------------------------------------------
Inf == 1000
Rep(S, lo, hi, lazy) == <<[t |-> "rep", set |-> S, min |-> lo, max |-> hi, lazy |-> lazy]>>
One(S) == Rep(S, 1, 1, FALSE)
Opt(S) == Rep(S, 0, 1, FALSE)
Star(S) == Rep(S, 0, Inf, FALSE)
Plus(S) == Rep(S, 1, Inf, FALSE)
LazyPlus(S) == Rep(S, 1, Inf, TRUE)
Times(S, n) == Rep(S, n, n, FALSE)
Lit(w) == [i \in 1..Len(w) |-> [t |-> "rep", set |-> {SubSeq(w, i, i)}, min |-> 1, max |-> 1, lazy |-> FALSE]]
Alt(alts) == <<[t |-> "alt", alts |-> alts]>>
Open(g) == <<[t |-> "open", g |-> g]>>
Close(g) == <<[t |-> "close", g |-> g]>>
WordB == <<[t |-> "wordb"]>>
Eos == <<[t |-> "eos"]>>
Grp(g, body) == Open(g) \o body \o Close(g)

NoMatch == [ok |-> FALSE, start |-> 0, end |-> 0, caps |-> <<>>]
NoCaps == [g \in 1..2 |-> <<0, 0>>]

\* \b between s[pos-1] and s[pos]
AtWordB(s, pos) ==
    LET before == pos > 1 /\ s[pos-1] \in ReWord
        after == pos <= Len(s) /\ s[pos] \in ReWord
    IN before # after

\* longest run of characters of S starting at pos, at most hi
RECURSIVE RunLen(_, _, _, _)
RunLen(s, S, pos, hi) ==
    IF hi = 0 \/ pos > Len(s) \/ s[pos] \notin S THEN 0
    ELSE 1 + RunLen(s, S, pos + 1, hi - 1)

RECURSIVE M(_, _, _, _)
RECURSIVE TryRep(_, _, _, _, _, _, _)
RECURSIVE TryAlt(_, _, _, _, _, _)

\* match the node sequence at pos; the first success in backtracking order
\* (a result r is bound once, by r \in {...}, and then tested and returned)
M(s, nodes, pos, caps) ==
    IF nodes = <<>> THEN [ok |-> TRUE, start |-> 0, end |-> pos, caps |-> caps]
    ELSE LET n == Head(nodes)
             rest == Tail(nodes)
         IN CASE n.t = "rep" ->
                   LET r == RunLen(s, n.set, pos, n.max)
                   IN IF r < n.min THEN NoMatch
                      ELSE IF n.lazy THEN TryRep(s, rest, pos, caps, n.min, r, 1)
                      ELSE TryRep(s, rest, pos, caps, r, n.min, -1)
              [] n.t = "alt" -> TryAlt(s, n.alts, rest, pos, caps, 1)
              [] n.t = "open" ->
                   M(s, rest, pos, [caps EXCEPT ![n.g] = <<pos, pos>>])
              [] n.t = "close" ->
                   M(s, rest, pos, [caps EXCEPT ![n.g] = <<caps[n.g][1], pos>>])
              [] n.t = "wordb" ->
                   IF AtWordB(s, pos) THEN M(s, rest, pos, caps) ELSE NoMatch
              [] n.t = "eos" ->
                   IF pos = Len(s) + 1 THEN M(s, rest, pos, caps) ELSE NoMatch

\* repetition counts j, j+step, ... up to stop, first that lets the rest match
TryRep(s, rest, pos, caps, j, stop, step) ==
    IF (step = 1 /\ j > stop) \/ (step = -1 /\ j < stop) THEN NoMatch
    ELSE CHOOSE v \in { IF r.ok THEN r
                         ELSE TryRep(s, rest, pos, caps, j + step, stop, step) :
                         r \in {M(s, rest, pos + j, caps)} } : TRUE

\* alternatives in order, first that lets the rest match
TryAlt(s, alts, rest, pos, caps, k) ==
    IF k > Len(alts) THEN NoMatch
    ELSE CHOOSE v \in { IF r.ok THEN r
                         ELSE TryAlt(s, alts, rest, pos, caps, k + 1) :
                         r \in {M(s, alts[k] \o rest, pos, caps)} } : TRUE

\* pattern.search(s): the match at the leftmost start position
RECURSIVE search_from(_, _, _)
search_from(nodes, s, i) ==
    IF i > Len(s) + 1 THEN NoMatch
    ELSE CHOOSE v \in { IF r.ok THEN [r EXCEPT !.start = i]
                         ELSE search_from(nodes, s, i + 1) :
                         r \in {M(s, nodes, i, NoCaps)} } : TRUE
search(nodes, s) == search_from(nodes, s, 1)

\* match.group(0) and match.group(g)
group0(s, m) == SubSeq(s, m.start, m.end - 1)
group(s, m, g) == SubSeq(s, m.caps[g][1], m.caps[g][2] - 1)

\* ------------------------------------------------------------------------
\* src/utils.py: lexicon and normalization
\* ------------------------------------------------------------------------
get_abbreviations_chained ==
    << <<"s/o", "son of">>, <<"w/o", "wife of">>, <<"c/o", "care of">>,
       <<"d/o", "daughter of">>, <<"rd", "road">>, <<"st", "street">>,
       <<"sec", "sector">>, <<"ph", "phase">>, <<"h.no", "house number">>,
       <<"hno", "house number">>, <<"vill", "village">>, <<"vlg", "village">>,
       <<"po", "po box">>, <<"dist", "district">> >>

get_abbreviations ==
    << <<"s/o", "son of">>, <<"w/o", "wife of">>, <<"c/o", "care of">>,
       <<"d/o", "daughter of">>, <<"rd", "road">>, <<"st", "street">>,
       <<"sec", "sector">>, <<"ph", "phase">>, <<"h.no", "house number">>,
       <<"hno", "house number">>, <<"vill", "village">>, <<"vlg", "village">>,
       <<"po", "post office">>, <<"dist", "district">> >>

\* dict.get(key, default) on a table of <<key, value>> string pairs
dict_get(table, key, default) ==
    IF \E i \in 1..Len(table) : Str(table[i][1]) = key
    THEN Str(table[CHOOSE i \in 1..Len(table) : Str(table[i][1]) = key][2])
    ELSE default

\* re.sub(r'[^\w\s,./\-()]', ' ', text)
NormAllowed == ReWord \cup ReSpace \cup {",", ".", "/", "-", "(", ")"}
strip_special(s) == [i \in 1..Len(s) |-> IF s[i] \in NormAllowed THEN s[i] ELSE " "]

\* re.sub(r'<S>+', rep, text): each maximal run of characters of S becomes rep
RECURSIVE collapse_from(_, _, _, _)
collapse_from(S, rep, s, i) ==
    IF i > Len(s) THEN <<>>
    ELSE IF s[i] \in S
         THEN IF i > 1 /\ s[i-1] \in S
              THEN collapse_from(S, rep, s, i + 1)
              ELSE <<rep>> \o collapse_from(S, rep, s, i + 1)
         ELSE <<s[i]>> \o collapse_from(S, rep, s, i + 1)
collapse(S, rep, s) == collapse_from(S, rep, s, 1)

\* re.sub(r'[^\w]', '', word)
clean_word(word) == SelectSeq(word, LAMBDA c : c \in ReWord)

expand_word(abbreviations, word) == dict_get(abbreviations, clean_word(word), word)

\* str(text)
py_str(text) == IF text = NaN THEN <<"n", "a", "n">> ELSE text

normalize_text(text, abbreviations) ==
    IF text = None \/ text = <<>> THEN <<>>
    ELSE LET t1 == strip(lower(py_str(text)))
             t2 == strip_special(t1)
             t3 == collapse({","}, ",", t2)
             t4 == collapse(ReSpace, " ", t3)
             words == split(t4)
             expanded_words == [i \in 1..Len(words) |-> expand_word(abbreviations, words[i])]
         IN strip(join(<<" ">>, expanded_words))

\* ------------------------------------------------------------------------
\* src/parser.py: patterns
\* ------------------------------------------------------------------------
\* (?:,|\s+|$)
TermCommaSpaceEnd == Alt(<<Lit(","), Plus(ReSpace), Eos>>)

pin_pattern == WordB \o Times(ReDigit, 6) \o WordB

care_of_pattern(abbr, words) ==
    Alt(<<Lit(abbr), Lit(words)>>) \o Plus(ReSpace)
      \o Grp(1, LazyPlus(AZ \cup ReSpace)) \o TermCommaSpaceEnd
care_of_patterns ==
    << care_of_pattern("s/o", "son of"), care_of_pattern("w/o", "wife of"),
       care_of_pattern("c/o", "care of"), care_of_pattern("d/o", "daughter of") >>

HouseTail == Star(ReSpace) \o Opt({":", "-"}) \o Star(ReSpace)
               \o Grp(1, Plus(AZ09 \cup {"/", "-"}))
no_or_number(word) ==
    Alt(<< Lit(word) \o Plus(ReSpace) \o Lit("no") \o Opt({"."}),
           Lit(word) \o Plus(ReSpace) \o Lit("number") >>)
house_patterns ==
    << Alt(<< Lit("h") \o Opt({"."}) \o Star(ReSpace) \o Lit("no") \o Opt({"."}),
              Lit("house") \o Plus(ReSpace) \o Lit("no") \o Opt({"."}),
              Lit("house") \o Plus(ReSpace) \o Lit("number") >>) \o HouseTail,
       no_or_number("plot") \o HouseTail,
       no_or_number("door") \o HouseTail,
       WordB \o Alt(<<Lit("no") \o Opt({"."}), Lit("number")>>) \o Plus(ReSpace)
         \o Grp(1, Plus(AZ09 \cup {"/", "-"})) >>

advanced_house_patterns ==
    << WordB \o Grp(1, Opt(AZ) \o Plus(ReDigit) \o Opt(AZ)) \o Plus(ReSpace)
         \o Grp(2, Plus(ReDigit)) \o Plus(ReSpace),
       WordB \o Grp(1, Opt(AZ) \o Plus(ReDigit) \o Opt(AZ) \o Lit("/") \o Plus(ReDigit)) \o WordB,
       WordB \o Grp(1, Plus(ReDigit) \o Opt(AZ) \o Lit("-") \o Plus(ReDigit) \o Opt(AZ)) \o WordB,
       WordB \o Grp(1, One(AZ) \o Plus(ReDigit)) \o WordB >>

landmark_patterns ==
    << Alt(<< Lit("near"), Lit("opp") \o Opt({"."}), Lit("opposite"), Lit("beside"),
              Lit("next to"), Lit("close to") >>) \o Plus(ReSpace)
         \o Grp(1, LazyPlus(AZ09 \cup ReSpace \cup {"."})) \o TermCommaSpaceEnd >>

locality_patterns ==
    << Alt(<<Lit("sector"), Lit("sec") \o Opt({"."})>>) \o Star(ReSpace)
         \o Grp(1, Plus(AZ09 \cup {"-"})),
       WordB \o Alt(<< Lit("street"), Lit("st") \o Opt({"."}), Lit("road"),
                       Lit("rd") \o Opt({"."}), Lit("lane"), Lit("ln") \o Opt({"."}),
                       Lit("colony"), Lit("col") \o Opt({"."}), Lit("extension"),
                       Lit("extn") \o Opt({"."}) >>) \o Plus(ReSpace)
         \o Grp(1, LazyPlus(AZ09 \cup ReSpace \cup {"."})) \o TermCommaSpaceEnd >>

village_patterns ==
    << Alt(<<Lit("village"), Lit("vill") \o Opt({"."})>>) \o Plus(ReSpace)
         \o Grp(1, LazyPlus(AZ \cup ReSpace))
         \o Alt(<<Lit(","), Plus(ReSpace) \o Lit("post"), Plus(ReSpace), Eos>>),
       WordB \o Grp(1, Alt(<<Lit("vill") \o Opt({"."}), Lit("vlg") \o Opt({"."})>>))
         \o Star(ReSpace) \o Grp(2, LazyPlus(AZ \cup ReSpace)) \o TermCommaSpaceEnd >>

district_patterns ==
    << Alt(<<Lit("district"), Lit("dist") \o Opt({"."})>>) \o Plus(ReSpace)
         \o Grp(1, LazyPlus(AZ \cup ReSpace)) \o TermCommaSpaceEnd,
       WordB \o Grp(1, Lit("dist") \o Opt({"."})) \o Star(ReSpace)
         \o Grp(2, LazyPlus(AZ \cup ReSpace)) \o TermCommaSpaceEnd >>

\* Python truthiness of an Optional[str]: None and '' are false
truthy(v) == v # None /\ v # <<>>

\* the first pattern of the list that matches, with its match: k is its
\* index, 0 when none matches
RECURSIVE first_match_from(_, _, _)
first_match_from(patterns, text, k) ==
    IF k > Len(patterns) THEN [k |-> 0, match |-> NoMatch]
    ELSE CHOOSE v \in { IF m.ok THEN [k |-> k, match |-> m]
                         ELSE first_match_from(patterns, text, k + 1) :
                         m \in {search(patterns[k], text)} } : TRUE
first_match(patterns, text) == first_match_from(patterns, text, 1)

\* ------------------------------------------------------------------------
\* src/parser.py: extraction functions
\* ------------------------------------------------------------------------
extract_pincode(text) ==
    LET match == search(pin_pattern, text)
    IN IF match.ok THEN strip(group0(text, match)) ELSE None

extract_care_of(text) ==
    LET f == first_match(care_of_patterns, text)
    IN IF f.k = 0 THEN None ELSE title(strip(group(text, f.match, 1)))

extract_house_number(text) ==
    LET f == first_match(house_patterns, text)
    IN IF f.k = 0 THEN None
       ELSE LET house_no == group(text, f.match, 1)
            IN SelectSeq(strip(house_no), LAMBDA c : c \in ReWord \cup {"/", "-"})

extract_house_number_advanced(text) ==
    LET f == first_match(advanced_house_patterns, text)
    IN IF f.k = 0 THEN None
       ELSE IF f.k = 1
       THEN join(<<" ">>, <<group(text, f.match, 1), group(text, f.match, 2)>>)
       ELSE group(text, f.match, 1)

extract_landmark(text) ==
    LET f == first_match(landmark_patterns, text)
    IN IF f.k = 0 THEN None ELSE title(strip(group(text, f.match, 1)))

\* <<locality, street>>
extract_locality_info(text) ==
    LET f == first_match(locality_patterns, text)
    IN IF f.k = 1 THEN <<Str("Sector ") \o group(text, f.match, 1), None>>
       ELSE IF f.k = 2 THEN <<title(strip(group(text, f.match, 1))), None>>
       ELSE <<None, None>>

extract_locality_advanced(text, parsed) ==
    LET t0 == lower(text)
        t1 == IF truthy(parsed.house_number)
              THEN remove_all(t0, lower(parsed.house_number)) ELSE t0
        temp_text == IF truthy(parsed.pincode)
                     THEN remove_all(t1, parsed.pincode) ELSE t1
        locality_indicators == {Str("extension"), Str("extn"), Str("colony"),
                                Str("col"), Str("area"), Str("nagar"), Str("layout")}
        words == re_split({",", "."} \cup ReSpace, strip(temp_text))
        locality_parts == SelectSeq(words, LAMBDA word :
              \/ (word # <<>> /\ word \notin locality_indicators /\ ~isdigit(word))
              \/ word \in locality_indicators)
    IN IF locality_parts # <<>> THEN title(join(<<" ">>, locality_parts)) ELSE None

extract_village_info(text) ==
    LET f == first_match(village_patterns, text)
    IN IF f.k = 0 THEN None
       ELSE IF f.k = 2 THEN title(strip(group(text, f.match, 2)))
       ELSE title(strip(group(text, f.match, 1)))

\* <<district, subdistrict>>
extract_district_info(text) ==
    LET f == first_match(district_patterns, text)
    IN IF f.k = 0 THEN <<None, None>>
       ELSE IF f.k = 2 THEN <<title(strip(group(text, f.match, 2))), None>>
       ELSE <<title(strip(group(text, f.match, 1))), None>>

\* ------------------------------------------------------------------------
\* src/models.py: the output record
\* ------------------------------------------------------------------------
\* confidence_score is kept in hundredths (0.0 is 0, 1.0 is 100)
ParsedAddress_scored ==
    [care_of |-> None, house_number |-> None, building_name |-> None,
     street |-> None, locality |-> None, landmark |-> None, city |-> None,
     village |-> None, district |-> None, subdistrict |-> None,
     state |-> None, pincode |-> None,
     confidence_score |-> 120, validation_errors |-> <<>>]

ParsedAddress_flagged ==
    [care_of |-> None, house_number |-> None, building_name |-> None,
     street |-> None, locality |-> None, landmark |-> None, city |-> None,
     village |-> None, district |-> None, subdistrict |-> None,
     state |-> None, pincode |-> None,
     confidence_score |-> 0,
     validation_errors |-> <<"Pincode missing", "City not detected", "State not detected">>]

ParsedAddress ==
    [care_of |-> None, house_number |-> None, building_name |-> None,
     street |-> None, locality |-> None, landmark |-> None, city |-> None,
     village |-> None, district |-> None, subdistrict |-> None,
     state |-> None, pincode |-> None,
     confidence_score |-> 0, validation_errors |-> <<>>]

StringFields == {"care_of", "house_number", "building_name", "street",
                 "locality", "landmark", "city", "village", "district",
                 "subdistrict", "state", "pincode"}

MetaFields == {"confidence_score", "validation_errors"}

to_dict_without_metadata(self) ==
    [key \in {k \in StringFields : self[k] # None} |-> self[key]]

\* the dict is a function whose domain is the set of keys kept
to_dict(self) ==
    [key \in {k \in DOMAIN self : k \in MetaFields \/ self[k] # None} |-> self[key]]

\* ------------------------------------------------------------------------
\* src/parser.py: IndianAddressParser
\* ------------------------------------------------------------------------
\* first window of the multi-word loop that is a gazetteer key, None if none
RECURSIVE multi_word_match(_, _, _)
multi_word_match(lookup, words, i) ==
    IF i > Len(words) - 2 THEN None
    ELSE LET three_word == join(<<" ">>, SubSeq(words, i, i + 2))
             two_word == join(<<" ">>, SubSeq(words, i, i + 1))
         IN IF three_word \in DOMAIN lookup THEN three_word
            ELSE IF two_word \in DOMAIN lookup THEN two_word
            ELSE multi_word_match(lookup, words, i + 1)

\* first single token that is a gazetteer key, None if none
RECURSIVE single_word_match(_, _, _)
single_word_match(lookup, words, i) ==
    IF i > Len(words) THEN None
    ELSE IF words[i] \in DOMAIN lookup THEN words[i]
    ELSE single_word_match(lookup, words, i + 1)

city_words(text) ==
    LET words == re_split({",", "."} \cup ReSpace, lower(text))
    IN SelectSeq([i \in 1..Len(words) |-> strip(words[i])], LAMBDA w : w # <<>>)

\* the gazetteer part of extract_city_state: <<city, state>>
city_state_from_text(lookup, text) ==
    LET words == city_words(text)
        multi == multi_word_match(lookup, words, 1)
        single == single_word_match(lookup, words, 1)
    IN IF multi # None THEN <<title(multi), lookup[multi].state>>
       ELSE IF single # None THEN <<title(single), lookup[single].state>>
       ELSE <<None, None>>

extract_city_state_text_first(pins, lookup, text, pincode) ==
    LET fromText == city_state_from_text(lookup, text)
    IN IF fromText # <<None, None>> THEN fromText
       ELSE IF truthy(pincode) /\ pincode \in DOMAIN pins
       THEN <<pins[pincode].city, pins[pincode].state>>
       ELSE <<None, None>>

extract_city_state(pins, lookup, text, pincode) ==
    IF truthy(pincode) /\ pincode \in DOMAIN pins
    THEN <<pins[pincode].city, pins[pincode].state>>
    ELSE city_state_from_text(lookup, text)

\* x or y
py_or(x, y) == IF truthy(x) THEN x ELSE y

validate_with_pincode_override(pins, parsed) ==
    IF truthy(parsed.pincode) /\ parsed.pincode \in DOMAIN pins
    THEN LET pin_data == pins[parsed.pincode]
         IN [parsed EXCEPT !.city = pin_data.city,
                           !.district = pin_data.district,
                           !.state = pin_data.state]
    ELSE parsed

validate_with_pincode(pins, parsed) ==
    IF truthy(parsed.pincode) /\ parsed.pincode \in DOMAIN pins
    THEN LET pin_data == pins[parsed.pincode]
         IN [parsed EXCEPT !.city = py_or(parsed.city, pin_data.city),
                           !.district = py_or(parsed.district, pin_data.district),
                           !.state = py_or(parsed.state, pin_data.state)]
    ELSE parsed

\* parse_address, lines 55-61
extract_fields(parsed, norm) ==
    LET locality_street == extract_locality_info(norm)
        district_subdistrict == extract_district_info(norm)
    IN [parsed EXCEPT
          !.pincode = extract_pincode(norm),
          !.care_of = extract_care_of(norm),
          !.house_number = extract_house_number(norm),
          !.landmark = extract_landmark(norm),
          !.village = extract_village_info(norm),
          !.locality = locality_street[1],
          !.street = locality_street[2],
          !.district = district_subdistrict[1],
          !.subdistrict = district_subdistrict[2]]

\* parse_address, line 62
resolve_city_state(pins, lookup, parsed, norm) ==
    LET cs == extract_city_state(pins, lookup, norm, parsed.pincode)
    IN [parsed EXCEPT !.city = cs[1], !.state = cs[2]]

\* lines 65-68 with the resolved city removed from the text as well
advanced_fallback_without_city(parsed, norm) ==
    LET norm1 == IF truthy(parsed.city)
                 THEN remove_all(lower(norm), lower(parsed.city)) ELSE norm
        p1 == IF ~truthy(parsed.house_number)
              THEN [parsed EXCEPT !.house_number = extract_house_number_advanced(norm1)]
              ELSE parsed
    IN IF ~truthy(p1.locality)
       THEN [p1 EXCEPT !.locality = extract_locality_advanced(norm1, p1)]
       ELSE p1

\* parse_address, lines 65-68
advanced_fallback(parsed, norm) ==
    LET p1 == IF ~truthy(parsed.house_number)
              THEN [parsed EXCEPT !.house_number = extract_house_number_advanced(norm)]
              ELSE parsed
    IN IF ~truthy(p1.locality)
       THEN [p1 EXCEPT !.locality = extract_locality_advanced(norm, p1)]
       ELSE p1

\* the whole call, as one function of the tables and the argument
parse_address(pins, lookup, a) ==
    IF ~truthy(a) THEN ParsedAddress
    ELSE LET norm0 == normalize_text(a, get_abbreviations)
             p1 == extract_fields(ParsedAddress, norm0)
             p2 == resolve_city_state(pins, lookup, p1, norm0)
             p3 == advanced_fallback(p2, norm0)
         IN validate_with_pincode(pins, p3)

\* ------------------------------------------------------------------------
\* Reference data (src/data_loader.py) and inputs
\* ------------------------------------------------------------------------
\* load_datasets() failed: both tables empty
EmptyTable == <<>>

PinIndex ==
    [k \in {Str("110001")} |->
        [city |-> Str("Delhi"), district |-> Str("Central Delhi"), state |-> Str("Delhi")]]

Gazetteer ==
    [k \in {Str("new delhi"), Str("delhi"), Str("pune")} |->
        IF k = Str("pune")
        THEN [district |-> Str("Pune"), state |-> Str("Maharashtra")]
        ELSE IF k = Str("delhi")
        THEN [district |-> Str("Delhi"), state |-> Str("Delhi")]
        ELSE [district |-> Str("New Delhi"), state |-> Str("NCT of Delhi")]]

\* <<pin_lookup, city_lookup>> after construction
Tables == {<<EmptyTable, EmptyTable>>, <<PinIndex, Gazetteer>>}

\* address fragments; an address is the concatenation of up to MaxPieces of them
MaxPieces == 2
Pieces ==
    { Str("new delhi"), Str("delhi"), Str("pune"), Str(" 110001"), Str("123456"),
      Str(", "), Str("x/dist ,"), Str("district agra, "),
      Str("H No 12, Sector 15, "), Str("near City Hospital, "),
      Str("s/o ram kumar, "), Str("Rd 5 "),
      <<"U+0967", "U+0967", "U+0967", "U+0967", "U+0967", "U+0967">> }

\* addresses taken whole
WholeAddresses == { Str("ab110001 110001"), Str("pune, new delhi, india") }

Addresses ==
    {None, <<>>} \cup WholeAddresses \cup
    UNION { {Concat(ps) : ps \in [1..k -> Pieces]} : k \in 1..MaxPieces }

\* ------------------------------------------------------------------------
\* State
\* ------------------------------------------------------------------------
VARIABLES
    pin_lookup,     \* self.pin_lookup
    city_lookup,    \* self.city_lookup
    address,        \* the argument of the running parse_address call
    pc,             \* position of the call
    norm,           \* local norm
    parsed,         \* local parsed
    result,         \* the returned record
    renorm,         \* normalize_text applied to its own output
    response,       \* the body returned by the /parse endpoint
    addresses_df,   \* self.addresses_df: the address column, row by row
    results,        \* local results of parse_all_addresses
    abbreviations,  \* self.abbreviations
    calls,          \* the locals of each concurrent parse_address call
    lists           \* the list objects allocated so far (validation_errors)

batch_vars == <<addresses_df, results>>
thread_vars == <<abbreviations, calls, lists>>

vars == <<pin_lookup, city_lookup, address, pc, norm, parsed, result, renorm,
          response, batch_vars, thread_vars>>

Init ==
    /\ \E t \in Tables : pin_lookup = t[1] /\ city_lookup = t[2]
    /\ address = None
    /\ pc = "idle"
    /\ norm = None
    /\ parsed = None
    /\ result = None
    /\ renorm = None
    /\ response = None
    /\ addresses_df = None
    /\ results = None
    /\ abbreviations = get_abbreviations
    /\ calls = None
    /\ lists = None

\* parse_address, lines 52-54: the early return, normalization, a fresh record
ParseStart(a) ==
    /\ pc = "idle"
    /\ address' = a
    /\ IF ~truthy(a)
       THEN /\ result' = ParsedAddress
            /\ pc' = "returned"
            /\ UNCHANGED <<norm, parsed>>
       ELSE /\ norm' = normalize_text(a, abbreviations)
            /\ parsed' = ParsedAddress
            /\ pc' = "extract"
            /\ UNCHANGED result
    /\ UNCHANGED <<pin_lookup, city_lookup, renorm, response, batch_vars, thread_vars>>

\* parse_address, lines 55-61: the pattern extractors
ExtractFields ==
    /\ pc = "extract"
    /\ parsed' = extract_fields(parsed, norm)
    /\ pc' = "city_state"
    /\ UNCHANGED <<pin_lookup, city_lookup, address, norm, result, renorm, response, batch_vars, thread_vars>>

\* parse_address, line 62
ExtractCityState ==
    /\ pc = "city_state"
    /\ parsed' = resolve_city_state(pin_lookup, city_lookup, parsed, norm)
    /\ pc' = "advanced"
    /\ UNCHANGED <<pin_lookup, city_lookup, address, norm, result, renorm, response, batch_vars, thread_vars>>

\* parse_address, lines 65-68
AdvancedFallback ==
    /\ pc = "advanced"
    /\ parsed' = advanced_fallback(parsed, norm)
    /\ pc' = "validate"
    /\ UNCHANGED <<pin_lookup, city_lookup, address, norm, result, renorm, response, batch_vars, thread_vars>>

\* parse_address, line 70: enrichment in place, and the return
ValidateAndReturn ==
    /\ pc = "validate"
    /\ parsed' = validate_with_pincode(pin_lookup, parsed)
    /\ result' = parsed'
    /\ pc' = "returned"
    /\ UNCHANGED <<pin_lookup, city_lookup, address, norm, renorm, response, batch_vars, thread_vars>>

\* src/main.py, lines 29-32: the /parse endpoint serializes the record
Respond ==
    /\ pc = "returned"
    /\ response' = [original |-> address, parsed |-> to_dict(result)]
    /\ pc' = "responded"
    /\ UNCHANGED <<pin_lookup, city_lookup, address, norm, parsed, result, renorm,
                   batch_vars, thread_vars>>

Next ==
    \/ \E a \in Addresses : ParseStart(a)
    \/ ExtractFields
    \/ ExtractCityState
    \/ AdvancedFallback
    \/ ValidateAndReturn
    \/ Respond

Spec == Init /\ [][Next]_vars

\* ------------------------------------------------------------------------
\* normalize_text as a pure function: every short text over NormAlphabet
\* ------------------------------------------------------------------------
MaxLen == 4
NormAlphabet == {"p", "o", "O", " ", ",", ".", "!"}
NormInputs == UNION { [1..k -> NormAlphabet] : k \in 0..MaxLen }

InitNormalize ==
    /\ pin_lookup = EmptyTable
    /\ city_lookup = EmptyTable
    /\ address \in NormInputs
    /\ pc = "raw"
    /\ norm = None
    /\ parsed = None
    /\ result = None
    /\ renorm = None
    /\ response = None
    /\ addresses_df = None
    /\ results = None
    /\ abbreviations = get_abbreviations
    /\ calls = None
    /\ lists = None

NormalizeOnce ==
    /\ pc = "raw"
    /\ norm' = normalize_text(address, abbreviations)
    /\ pc' = "normalized"
    /\ UNCHANGED <<pin_lookup, city_lookup, address, parsed, result, renorm, response, batch_vars, thread_vars>>

NormalizeAgain ==
    /\ pc = "normalized"
    /\ renorm' = normalize_text(norm, abbreviations)
    /\ pc' = "renormalized"
    /\ UNCHANGED <<pin_lookup, city_lookup, address, norm, parsed, result,
                   response, batch_vars, thread_vars>>

NextNormalize == NormalizeOnce \/ NormalizeAgain

SpecNormalize == InitNormalize /\ [][NextNormalize]_vars

\* ------------------------------------------------------------------------
\* parse_all_addresses: one loop iteration per step
\* ------------------------------------------------------------------------
MaxRows == 3

\* None in the place of the frame: a value no frame equals (no frame has a
\* column of this name)
NoFrame == <<[NoneType |-> TRUE]>>

\* cells of the address column as read_csv delivers them
Cells == { NaN, Str("new delhi 110001"), Str("s/o ram kumar, pune"), Str(", ") }

\* the frames of n rows: with an address column, or without one
FramesOf(n) ==
    { [k \in 1..n |-> [address |-> c[k]]] : c \in [1..n -> Cells] }
      \cup { [k \in 1..n |-> [city |-> Str("pune")]] }

Frames == UNION { FramesOf(n) : n \in 0..MaxRows }

\* row.get(key, default)
row_get(row, key, default) == IF key \in DOMAIN row THEN row[key] ELSE default

\* lines 75-77 with the 1-based id replaced by the index label itself
batch_entry_zero_based(pins, lookup, i, row) ==
    LET original == row_get(row, "address", <<>>)
        parsed0 == parse_address(pins, lookup, original)
    IN [id |-> i, original |-> original, parsed |-> to_dict(parsed0)]

\* lines 75-77: the entry appended for the row with index label i
batch_entry(pins, lookup, i, row) ==
    LET original == row_get(row, "address", <<>>)
        parsed0 == parse_address(pins, lookup, original)
    IN [id |-> i + 1, original |-> original, parsed |-> to_dict(parsed0)]

\* load_datasets succeeded (a frame and the tables) or failed (no frame, empty
\* tables)
InitBatch ==
    /\ \/ /\ addresses_df \in Frames
          /\ pin_lookup = PinIndex /\ city_lookup = Gazetteer
       \/ /\ addresses_df = NoFrame
          /\ pin_lookup = EmptyTable /\ city_lookup = EmptyTable
    /\ results = <<>>
    /\ pc = "batch"
    /\ address = None
    /\ norm = None
    /\ parsed = None
    /\ result = None
    /\ renorm = None
    /\ response = None
    /\ abbreviations = get_abbreviations
    /\ calls = None
    /\ lists = None

\* lines 74-77: iterrows() yields the next row, whose index label is the
\* number of rows already handled (RangeIndex)
BatchIterate ==
    /\ pc = "batch"
    /\ addresses_df # NoFrame
    /\ Len(results) < Len(addresses_df)
    /\ LET i == Len(results)
       IN results' = Append(results,
                        batch_entry(pin_lookup, city_lookup, i, addresses_df[i + 1]))
    /\ UNCHANGED <<pin_lookup, city_lookup, address, pc, norm, parsed, result, renorm,
                   response, addresses_df, thread_vars>>

\* line 78
BatchReturn ==
    /\ pc = "batch"
    /\ addresses_df # NoFrame
    /\ Len(results) = Len(addresses_df)
    /\ pc' = "batch_returned"
    /\ UNCHANGED <<pin_lookup, city_lookup, address, norm, parsed, result, renorm,
                   response, batch_vars, thread_vars>>

\* line 74 when load_datasets failed: None has no iterrows
BatchRaise ==
    /\ pc = "batch"
    /\ addresses_df = NoFrame
    /\ pc' = "batch_raised"
    /\ UNCHANGED <<pin_lookup, city_lookup, address, norm, parsed, result, renorm,
                   response, batch_vars, thread_vars>>

NextBatch == BatchIterate \/ BatchReturn \/ BatchRaise

SpecBatch == InitBatch /\ [][NextBatch]_vars

\* ------------------------------------------------------------------------
\* Concurrent parse_address calls on the one parser of src/main.py
\* ------------------------------------------------------------------------
NCalls == 2
Calls == 1..NCalls

ThreadAddresses == { <<>>, Str("pune 110001"), Str("x/dist ,") }

\* every record would get the one list object made first
shared_list(heap) == 1

\* field(default_factory=list): the list object a new record gets
new_list(heap) == Len(heap) + 1

IdleCall ==
    [pc |-> "idle", address |-> None, norm |-> None, parsed |-> None,
     result |-> None, errors_ref |-> 0]

\* the parser of src/main.py, constructed once with its tables loaded
InitThreads ==
    /\ pin_lookup = PinIndex
    /\ city_lookup = Gazetteer
    /\ abbreviations = get_abbreviations
    /\ calls = [c \in Calls |-> IdleCall]
    /\ lists = <<>>
    /\ address = None
    /\ pc = "serving"
    /\ norm = None
    /\ parsed = None
    /\ result = None
    /\ renorm = None
    /\ response = None
    /\ addresses_df = None
    /\ results = None

\* what a step of a call leaves alone: everything but its own locals
OnlyCall(c, next) ==
    /\ calls' = [calls EXCEPT ![c] = next]
    /\ UNCHANGED <<pin_lookup, city_lookup, abbreviations, address, pc, norm,
                   parsed, result, renorm, response, batch_vars>>

\* lines 52-54 in call c; ParsedAddress() allocates the record's list
CallStart(c, a) ==
    /\ calls[c].pc = "idle"
    /\ LET ref == new_list(lists)
           entered == [calls[c] EXCEPT !.address = a, !.errors_ref = ref]
       IN /\ lists' = IF ref > Len(lists) THEN Append(lists, <<>>) ELSE lists
          /\ OnlyCall(c,
                IF ~truthy(a)
                THEN [entered EXCEPT !.result = ParsedAddress, !.pc = "returned"]
                ELSE [entered EXCEPT !.norm = normalize_text(a, abbreviations),
                                     !.parsed = ParsedAddress, !.pc = "extract"])

\* lines 55-61 in call c
CallExtractFields(c) ==
    /\ calls[c].pc = "extract"
    /\ OnlyCall(c, [calls[c] EXCEPT
                      !.parsed = extract_fields(calls[c].parsed, calls[c].norm),
                      !.pc = "city_state"])
    /\ UNCHANGED lists

\* line 62 in call c
CallExtractCityState(c) ==
    /\ calls[c].pc = "city_state"
    /\ OnlyCall(c, [calls[c] EXCEPT
                      !.parsed = resolve_city_state(pin_lookup, city_lookup,
                                                    calls[c].parsed, calls[c].norm),
                      !.pc = "advanced"])
    /\ UNCHANGED lists

\* lines 65-68 in call c
CallAdvancedFallback(c) ==
    /\ calls[c].pc = "advanced"
    /\ OnlyCall(c, [calls[c] EXCEPT
                      !.parsed = advanced_fallback(calls[c].parsed, calls[c].norm),
                      !.pc = "validate"])
    /\ UNCHANGED lists

\* line 70 in call c
CallValidateAndReturn(c) ==
    /\ calls[c].pc = "validate"
    /\ LET p == validate_with_pincode(pin_lookup, calls[c].parsed)
       IN OnlyCall(c, [calls[c] EXCEPT !.parsed = p, !.result = p, !.pc = "returned"])
    /\ UNCHANGED lists

NextThreads ==
    \E c \in Calls :
        \/ \E a \in ThreadAddresses : CallStart(c, a)
        \/ CallExtractFields(c)
        \/ CallExtractCityState(c)
        \/ CallAdvancedFallback(c)
        \/ CallValidateAndReturn(c)

SpecThreads == InitThreads /\ [][NextThreads]_vars

\* ------------------------------------------------------------------------
\* Properties
\* ------------------------------------------------------------------------
Returned == pc = "returned"
PinApplies(r) == r.pincode \in DOMAIN pin_lookup

\* C1: parse_address on a null or empty address returns the default record:
\* every string field null, confidence_score 0.0, validation_errors empty.
C1_EmptyInputDefault ==
    (Returned /\ ~truthy(address)) =>
        /\ \A f \in StringFields : result[f] = None
        /\ result.confidence_score = 0
        /\ result.validation_errors = <<>>

C1_Witness == Returned /\ address = <<>>

\* position of a call in the statement order of parse_address
Rank(p) == CASE p = "idle" -> 0 [] p = "extract" -> 1 [] p = "city_state" -> 2
             [] p = "advanced" -> 3 [] p = "validate" -> 4 [] p = "returned" -> 5
             [] p = "responded" -> 6

\* C2: for every input and every content of the tables, each step of a
\* parse_address call moves the call forward to its return (no step repeats
\* or fails), and the returned confidence_score lies in [0.0, 1.0].
C2_TotalBoundedScore ==
    [][ /\ Rank(pc') > Rank(pc)
        /\ pc' = "returned" => result'.confidence_score \in 0..100 ]_vars

C2_Witness == Returned /\ truthy(address) /\ pin_lookup # EmptyTable /\ truthy(result.city)

\* the five signals of the confidence score that hold in a record
Signals(r) ==
    Cardinality({ i \in 1..5 :
        \/ i = 1 /\ r.pincode # None
        \/ i = 2 /\ r.city # None
        \/ i = 3 /\ r.state # None
        \/ i = 4 /\ r.house_number # None
        \/ i = 5 /\ (r.locality # None \/ r.street # None) })

\* C3: the returned confidence_score is 0.2 times the number of the five
\* signals (pincode, city, state, house_number, locality or street) present.
C3_AdditiveScore == Returned => result.confidence_score = 20 * Signals(result)

HasError(r, e) == \E i \in 1..Len(r.validation_errors) : r.validation_errors[i] = e

\* C4: for a non-empty input, validation_errors holds "Pincode missing" exactly
\* when pincode is null, "City not detected" exactly when city is null and
\* "State not detected" exactly when state is null, and nothing else.
C4_Diagnostics ==
    (Returned /\ truthy(address)) =>
        /\ HasError(result, "Pincode missing") <=> (result.pincode = None)
        /\ HasError(result, "City not detected") <=> (result.city = None)
        /\ HasError(result, "State not detected") <=> (result.state = None)
        /\ \A i \in 1..Len(result.validation_errors) :
              result.validation_errors[i] \in
                {"Pincode missing", "City not detected", "State not detected"}

\* C5: when the extracted PIN is a key of the PIN index, the returned city and
\* state are those of that entry, whatever gazetteer names the text holds.
C5_PinPrecedence ==
    (Returned /\ PinApplies(result)) =>
        /\ result.city = pin_lookup[result.pincode].city
        /\ result.state = pin_lookup[result.pincode].state

\* the text alone resolves to a gazetteer city other than the PIN's city
C5_Witness ==
    /\ Returned /\ PinApplies(result)
    /\ city_state_from_text(city_lookup, norm)[1] \notin {None, result.city}

EnrichedFields == {"city", "district", "state"}

\* enrichment fills the fields that were null or empty and keeps all others
FillsOnlyMissing(before, after, pins) ==
    IF truthy(before.pincode) /\ before.pincode \in DOMAIN pins
    THEN /\ \A f \in EnrichedFields :
               after[f] = IF truthy(before[f]) THEN before[f]
                          ELSE pins[before.pincode][f]
         /\ \A f \in (DOMAIN before) \ EnrichedFields : after[f] = before[f]
    ELSE after = before

\* enrichment fills the fields that were null and keeps all others
FillsOnlyNull(before, after, pins) ==
    IF truthy(before.pincode) /\ before.pincode \in DOMAIN pins
    THEN /\ \A f \in EnrichedFields :
               after[f] = IF before[f] # None THEN before[f]
                          ELSE pins[before.pincode][f]
         /\ \A f \in (DOMAIN before) \ EnrichedFields : after[f] = before[f]
    ELSE after = before

\* C6 (as amended): validate_with_pincode keeps city, district and state when
\* they are non-null and non-empty, fills them from the PIN index entry when
\* they are null or the empty string, leaves every other field unchanged, and
\* leaves the record unchanged when the pincode is null or not in the index.
C6_FillsOnlyMissing ==
    [][pc = "validate" => FillsOnlyMissing(parsed, parsed', pin_lookup)]_vars

\* C6 (as stated): a field is overwritten only when it was null.
C6_FillsOnlyNull ==
    [][pc = "validate" => FillsOnlyNull(parsed, parsed', pin_lookup)]_vars

\* a district read from the text survived a PIN entry with another district
C6_Witness ==
    /\ Returned /\ PinApplies(result)
    /\ truthy(result.district)
    /\ result.district # pin_lookup[result.pincode].district

\* words[i..] starts with the words of key
HasWindow(words, key) ==
    \E i \in 1..Len(words) :
        /\ i + Len(key) - 1 <= Len(words)
        /\ SubSeq(words, i, i + Len(key) - 1) = key

\* C7: with a multi-word gazetteer key and a single-word key that is one of
\* its words, and no PIN applying, a text containing the multi-word name as
\* consecutive tokens resolves to the multi-word city, wherever it stands.
C7_MultiWordPreferred ==
    (Returned /\ truthy(address) /\ ~PinApplies(result)) =>
        \A k \in DOMAIN city_lookup :
            ( /\ Len(split(k)) > 1
              /\ \E k1 \in DOMAIN city_lookup :
                     \E i \in 1..Len(split(k)) : split(k)[i] = k1
              /\ HasWindow(city_words(norm), split(k)) )
            => result.city = title(k)

\* C8: normalize_text(normalize_text(x)) = normalize_text(x).
C8_Idempotent == pc = "renormalized" => renorm = norm

\* an abbreviation was expanded to two words on the first pass
C8_Witness == pc = "renormalized" /\ norm = Str("post office")

\* a partial-substring similarity on a 0-100 scale (the fuzzy stage has no
\* code in src/): the best ratio 2*LCS/(len+len) of the shorter text against
\* the windows of its length in the longer one
Max2(a, b) == IF a >= b THEN a ELSE b

RECURSIVE lcs_row(_, _, _, _, _)
lcs_row(prev, c, b, j, cur) ==
    IF j > Len(b) THEN cur
    ELSE lcs_row(prev, c, b, j + 1,
                 Append(cur, IF c = b[j] THEN prev[j] + 1 ELSE Max2(prev[j + 1], cur[j])))

RECURSIVE lcs_rows(_, _, _, _)
lcs_rows(a, b, i, prev) ==
    IF i > Len(a) THEN prev[Len(b) + 1]
    ELSE lcs_rows(a, b, i + 1, lcs_row(prev, a[i], b, 1, <<0>>))

lcs(a, b) == lcs_rows(a, b, 1, [j \in 1..(Len(b) + 1) |-> 0])

ratio(a, b) == IF Len(a) + Len(b) = 0 THEN 100
               ELSE (200 * lcs(a, b)) \div (Len(a) + Len(b))

partial_ratio(a, b) ==
    LET short == IF Len(a) <= Len(b) THEN a ELSE b
        long == IF Len(a) <= Len(b) THEN b ELSE a
        scores == { ratio(short, SubSeq(long, i, i + Len(short) - 1)) :
                      i \in 1..(Len(long) - Len(short) + 1) }
    IN CHOOSE m \in scores : \A x \in scores : x <= m

\* C9: when no PIN applies and no exact gazetteer window matches, the key
\* with the highest similarity to the text is returned as city if its score
\* is 85 or more, and city and state are null at a best score of 84 or less.
C9_FuzzyThreshold ==
    ( /\ Returned /\ truthy(address) /\ ~PinApplies(result)
      /\ city_state_from_text(city_lookup, norm) = <<None, None>>
      /\ DOMAIN city_lookup # {} ) =>
        LET scores == { partial_ratio(k, norm) : k \in DOMAIN city_lookup }
            best == CHOOSE m \in scores : \A x \in scores : x <= m
        IN IF best >= 85
           THEN \E k \in DOMAIN city_lookup :
                   /\ partial_ratio(k, norm) = best
                   /\ result.city \in {k, title(k)}
           ELSE result.city = None /\ result.state = None

\* a maximal run of exactly six ASCII digits starts at text[i]
SixDigitRunAt(text, i) ==
    /\ i + 5 <= Len(text)
    /\ \A j \in i..(i + 5) : text[j] \in AsciiDigit
    /\ i = 1 \/ text[i - 1] \notin ReDigit
    /\ i + 6 > Len(text) \/ text[i + 6] \notin ReDigit

\* C10: extract_pincode returns the first maximal run of exactly six digits
\* of the normalized text whose neighbours are non-digits or the string
\* boundary (letters and underscores included), null exactly when there is
\* none; the result is six ASCII digits.
C10_SixDigitRun ==
    (truthy(address) /\ pc \in {"city_state", "advanced", "validate", "returned"}) =>
        LET starts == { i \in 1..Len(norm) : SixDigitRunAt(norm, i) }
        IN parsed.pincode =
             IF starts = {} THEN None
             ELSE LET first == CHOOSE i \in starts : \A j \in starts : i <= j
                  IN SubSeq(norm, first, first + 5)

\* C11: to_dict omits every field whose value is null, includes every
\* non-null field with its value unchanged, and always includes
\* confidence_score and validation_errors (also at 0.0 and the empty list).
C11_ToDict ==
    pc = "responded" =>
        LET d == response.parsed
        IN /\ DOMAIN d \subseteq StringFields \cup MetaFields
           /\ \A f \in StringFields :
                 IF result[f] = None THEN f \notin DOMAIN d
                 ELSE f \in DOMAIN d /\ d[f] = result[f]
           /\ \A f \in MetaFields : f \in DOMAIN d /\ d[f] = result[f]

\* a record with null fields, an empty-string field and the default metadata
C11_Witness ==
    /\ pc = "responded"
    /\ result.district = <<>>
    /\ result.care_of = None
    /\ truthy(result.pincode)
    /\ result.confidence_score = 0 /\ result.validation_errors = <<>>

\* C12: parse_all_addresses over a frame of n addresses never raises and
\* returns n results in input order; the k-th carries id k, the k-th original
\* address untransformed and the serialization of parse_address on it alone.
C12_BatchInOrder ==
    addresses_df # NoFrame =>
        /\ pc \in {"batch", "batch_returned"}
        /\ Len(results) <= Len(addresses_df)
        /\ pc = "batch_returned" => Len(results) = Len(addresses_df)
        /\ \A k \in 1..Len(results) :
              LET original == row_get(addresses_df[k], "address", <<>>)
              IN /\ results[k].id = k
                 /\ results[k].original = original
                 /\ results[k].parsed =
                       to_dict(parse_address(pin_lookup, city_lookup, original))

\* a finished batch of three rows with an empty cell in the middle
C12_Witness ==
    /\ pc = "batch_returned"
    /\ Len(results) = 3
    /\ results[2].original = NaN
    /\ results[1].original # results[3].original
    /\ "city" \in DOMAIN results[3].parsed

PatternFields == {"pincode", "care_of", "house_number", "landmark", "village", "locality"}

\* C13: with load_datasets failed (PIN index and gazetteer empty)
\* parse_address still returns a record: city and state are null, district
\* is what the text gives, and pincode, care_of, house_number, landmark,
\* village and locality are what they are with populated tables.
C13_PatternOnly ==
    (Returned /\ pin_lookup = EmptyTable /\ city_lookup = EmptyTable) =>
        LET populated == parse_address(PinIndex, Gazetteer, address)
        IN /\ result.city = None
           /\ result.state = None
           /\ result.district =
                 IF truthy(address) THEN extract_district_info(norm)[1] ELSE None
           /\ \A f \in PatternFields : result[f] = populated[f]

\* an address whose PIN and city the populated tables would resolve
C13_Witness ==
    /\ Returned /\ pin_lookup = EmptyTable /\ city_lookup = EmptyTable
    /\ result.pincode \in DOMAIN PinIndex
    /\ city_state_from_text(Gazetteer, norm)[1] # None
    /\ truthy(result.locality)
    /\ result.city = None

\* the calls that have built their record
Started == { c \in Calls : calls[c].pc # "idle" }

\* no two records share their validation_errors list
FreshRecords ==
    /\ \A c \in Started : calls[c].errors_ref \in 1..Len(lists)
    /\ \A c1, c2 \in Started : c1 # c2 => calls[c1].errors_ref # calls[c2].errors_ref

\* no step of a call writes the PIN index, the gazetteer or the lexicon
TablesReadOnly ==
    /\ pin_lookup' = pin_lookup
    /\ city_lookup' = city_lookup
    /\ abbreviations' = abbreviations

\* a step touches the locals of one call only; a call that returns has the
\* record of the same call run alone, and keeps it
ReturnsAsAlone ==
    \A c \in Calls :
        /\ calls'[c].pc # calls[c].pc => \A d \in Calls \ {c} : calls'[d] = calls[d]
        /\ calls[c].pc = "returned" => calls'[c] = calls[c]
        /\ (calls[c].pc # "returned" /\ calls'[c].pc = "returned") =>
              calls'[c].result =
                  parse_address(pin_lookup, city_lookup, calls'[c].address)

\* C14: concurrent parse_address calls are independent: no call writes the
\* PIN index, the gazetteer or the lexicon, each call builds a fresh record
\* sharing no mutable part (validation_errors included) with another, and
\* under every interleaving each call returns the record it returns alone.
C14_CallsIndependent ==
    []FreshRecords /\ [][TablesReadOnly /\ ReturnsAsAlone]_vars

\* call 1 started after call 2 (its list is the later one) and has returned
\* its record while call 2, on another address, is still in flight
C14_Witness ==
    /\ calls[1].pc = "returned" /\ truthy(calls[1].address)
    /\ truthy(calls[1].result.city)
    /\ calls[2].pc = "validate"
    /\ calls[2].errors_ref < calls[1].errors_ref
    /\ calls[2].address # calls[1].address

\* C15 (as amended): whenever the extracted PIN is a key of the PIN index,
\* the district of the returned record is the district read from the text
\* when the text gives a non-empty one, and the district of the PIN index
\* entry otherwise.
C15_PinDistrictFallback ==
    (Returned /\ PinApplies(result)) =>
        result.district = py_or(extract_district_info(norm)[1],
                                pin_lookup[result.pincode].district)

\* C15 (as stated): whenever the extracted PIN is a key of the PIN index, the
\* district of the returned record is that entry's district, also when the
\* text carries a district marker followed by a different name.
C15_PinDistrictAuthority ==
    (Returned /\ PinApplies(result)) =>
        result.district = pin_lookup[result.pincode].district

\* the text names the district Agra, the PIN entry Central Delhi
C15_Witness ==
    /\ Returned /\ PinApplies(result)
    /\ extract_district_info(norm)[1] = Str("Agra")
    /\ pin_lookup[result.pincode].district = Str("Central Delhi")

\* <<i, m>>: marker m stands at text[i] and whitespace follows it
MarkerHits(text, markers) ==
    { h \in (1..Len(text)) \X markers :
        /\ StartsAt(text, h[2], h[1])
        /\ h[1] + Len(h[2]) <= Len(text)
        /\ text[h[1] + Len(h[2])] \in ReSpace }

\* the text from position i up to the next comma or the end of the string
UpToComma(text, i) ==
    LET commas == { j \in i..Len(text) : text[j] = "," }
        stop == IF commas = {} THEN Len(text) + 1
                ELSE CHOOSE j \in commas : \A k \in commas : j <= k
    IN SubSeq(text, i, stop - 1)

\* the text between the first marker of the set and the next comma or the
\* end of the string; None when the text holds no marker
TextAfterMarker(text, markers) ==
    LET hits == MarkerHits(text, markers)
    IN IF hits = {} THEN None
       ELSE LET first == CHOOSE h \in hits : \A g \in hits : h[1] <= g[1]
            IN UpToComma(text, first[1] + Len(first[2]))

isalpha(w) == w # <<>> /\ \A i \in 1..Len(w) : w[i] \in AZ

\* the longest prefix of tokens that are all alphabetic
RECURSIVE AlphaRun(_)
AlphaRun(tokens) ==
    IF tokens = <<>> \/ ~isalpha(Head(tokens)) THEN <<>>
    ELSE <<Head(tokens)>> \o AlphaRun(Tail(tokens))

CareOfMarkers == { Str("son of"), Str("wife of"), Str("care of"), Str("daughter of"),
                   Str("s/o"), Str("w/o"), Str("c/o"), Str("d/o") }

\* C16: extract_care_of returns, title-cased, the whole run of alphabetic
\* tokens that follows the first relationship marker up to the next comma or
\* the end of the string (a two-word name in full), and null without a marker.
C16_CareOfFullName ==
    (Returned /\ truthy(address)) =>
        LET after == TextAfterMarker(norm, CareOfMarkers)
            name == IF after = None THEN <<>> ELSE AlphaRun(split(after))
        IN result.care_of = IF name = <<>> THEN None ELSE title(join(<<" ">>, name))

LandmarkMarkers == { Str("near"), Str("opposite"), Str("behind"), Str("beside"),
                     Str("next to") }

\* C17: extract_landmark returns, in title case, the free text between the
\* first proximity marker (near, opposite, behind, beside, next to) and the
\* next comma or the end of the string, and null when that text is shorter
\* than 3 characters or no marker is present.
C17_LandmarkFreeText ==
    (Returned /\ truthy(address)) =>
        LET after == TextAfterMarker(norm, LandmarkMarkers)
            free == IF after = None THEN <<>> ELSE strip(after)
        IN result.landmark = IF Len(free) < 3 THEN None ELSE title(free)

\* the spans <<from, to)>> of the normalized text that the house-number
\* extraction (marker-based, else advanced) and the PIN extraction matched
HouseSpans(text) ==
    LET f == first_match(house_patterns, text)
        g == first_match(advanced_house_patterns, text)
    IN IF f.k # 0 THEN {f.match.caps[1]}
       ELSE IF g.k = 0 THEN {}
       ELSE IF g.k = 1 THEN {g.match.caps[1], g.match.caps[2]}
       ELSE {g.match.caps[1]}

PinSpans(text) ==
    LET m == search(pin_pattern, text)
    IN IF m.ok THEN {<<m.start, m.end>>} ELSE {}

\* the text without the characters of the spans
WithoutSpans(text, spans) ==
    LET at == [i \in 1..Len(text) |-> <<i, text[i]>>]
        kept == SelectSeq(at, LAMBDA p :
                    \A sp \in spans : ~(sp[1] <= p[1] /\ p[1] < sp[2]))
    IN [i \in 1..Len(kept) |-> kept[i][2]]

\* the label of the claim: the non-numeric tokens left, title-cased
RemainingLabel(text) ==
    LET rest == WithoutSpans(text, HouseSpans(text) \cup PinSpans(text))
        tokens == SelectSeq(re_split({",", "."} \cup ReSpace, rest),
                            LAMBDA w : w # <<>> /\ ~isdigit(w))
    IN IF tokens = <<>> THEN None ELSE title(join(<<" ">>, tokens))

\* C18: the advanced locality fallback runs only when marker-based
\* extraction found no locality, and then the label is exactly the
\* title-cased tokens of the normalized text, in order, left after removing
\* the extracted house-number span and PIN span and dropping numeric tokens
\* (each a whole token of the normalized text), null when none remains.
C18_LocalityFallbackLabel ==
    (Returned /\ truthy(address)) =>
        LET marked == extract_locality_info(norm)[1]
        IN result.locality = IF truthy(marked) THEN marked ELSE RemainingLabel(norm)

\* the n-token window at position i as a lookup key, None past the end
Window(words, i, n) ==
    IF i + n - 1 <= Len(words) THEN join(<<" ">>, SubSeq(words, i, i + n - 1))
    ELSE None

\* positions left to right, at each the 3-, 2-, then 1-token window: the
\* first window that is a gazetteer key, None if none is
RECURSIVE FirstHitByPosition(_, _, _)
FirstHitByPosition(lookup, words, i) ==
    IF i > Len(words) THEN None
    ELSE LET hits == { n \in 1..3 : Window(words, i, n) \in DOMAIN lookup }
         IN IF hits = {} THEN FirstHitByPosition(lookup, words, i + 1)
            ELSE Window(words, i, CHOOSE n \in hits : \A m \in hits : m <= n)

\* C19: exact gazetteer matching scans positions left to right and tries at
\* each the 3-, 2-, then 1-token window; the first hit wins (a single-token
\* key at an earlier position over a multi-token key starting later); the
\* city is the matched key title-cased, the state that key's gazetteer state.
C19_PositionMajorScan ==
    (Returned /\ truthy(address) /\ ~PinApplies(result)) =>
        LET key == FirstHitByPosition(city_lookup, city_words(norm), 1)
        IN IF key = None THEN result.city = None /\ result.state = None
           ELSE /\ result.city = title(key)
                /\ result.state = city_lookup[key].state

====
